---- MODULE Spec2Model ----
(***************************************************************************)
(* Model of smtpd/ruleset.c: the two ruleset matchers ruleset_match (over  *)
(* env->sc_rules, struct rule) and ruleset_match_new (over                 *)
(* env->sc_matches, struct match), their criterion evaluators and the      *)
(* table lookups, warnings and trace events they issue.                    *)
(***************************************************************************)
EXTENDS Integers, Sequences, FiniteSets, TLC

VARIABLES
    sc_rules,     \* env->sc_rules: the ordered list of struct rule
    sc_matches,   \* env->sc_matches: the ordered list of struct match
    evp,          \* the envelope handed to the matchers
    errno,        \* the C errno
    pc,           \* "idle" (no call in flight) or "loop" (inside TAILQ_FOREACH)
    fn,           \* the matcher of the call in flight, or of the last call
    cur,          \* TAILQ cursor r / m: position in the list (Len+1 = end)
    i,            \* ruleset_match_new's counter i
    evals,        \* criterion evaluations of the current/last call, in order
    lookups,      \* table_lookup calls of the current/last call, in order
    diag,         \* log_warnx / log_trace events of the current/last call
    ret           \* per matcher: what its last call returned, errno at return

vars == <<sc_rules, sc_matches, evp, errno, pc, fn, cur, i, evals, lookups, diag, ret>>

-----------------------------------------------------------------------------
(* Bounds *)

MaxRules == 2

-----------------------------------------------------------------------------
(* C constants and the collaborators outside ruleset.c *)

NULL == "NULL"
EAGAIN == 35
EF_AUTHENTICATED == "EF_AUTHENTICATED"
EF_INTERNAL == "EF_INTERNAL"
K_NETADDR == "K_NETADDR"
K_MAILADDR == "K_MAILADDR"
K_DOMAIN == "K_DOMAIN"
K_STRING == "K_STRING"

\* A mail address whose textual form does not fit mailaddr_to_text's buffer.
Overlong == "<overlong>"

\* The tables of the configuration and the keys each one holds.  "faulty" is
\* a table whose backend fails; "nobody" is an empty table.
TableKeys(table) ==
    CASE table = "<anyhost>"   -> {"local", "192.0.2.7"}
      [] table = "<localhost>" -> {"local"}
      [] table = "peers"       -> {"192.0.2.7"}
      [] table = "doms"        -> {"example.org"}
      [] table = "users"       -> {"alice@example.net", "bob@example.org"}
      [] table = "tags_x"      -> {"x"}
      [] table = "tags_y"      -> {"y"}
      [] table = "helos"       -> {"mx.example.net"}
      [] OTHER                 -> {}

\* table_lookup(table, NULL, key, service, NULL): 1 found, 0 not found,
\* -1 backend error.
table_lookup(table, key, service) ==
    IF table = "faulty" THEN -1
    ELSE IF key \in TableKeys(table) THEN 1
    ELSE 0

ss_to_text(ss) == ss

mailaddr_to_text(maddr) ==
    IF maddr.user = Overlong THEN NULL
    ELSE maddr.user \o "@" \o maddr.domain

\* One table_lookup call as recorded in the lookups log.
Lookup(table, key, service) ==
    [table |-> table, key |-> key, service |-> service,
     ret |-> table_lookup(table, key, service)]

Warn(table) == "warn: failure to perform a table lookup on table " \o table

\* What a criterion evaluator hands back: its return value and the table
\* lookups and warnings it issued on the way.
Res(r, lks, ws) == [ret |-> r, lookups |-> lks, warns |-> ws]

-----------------------------------------------------------------------------
(* ruleset_match's helpers *)

ruleset_check_source(table, ss, evpflags) ==
    LET key == IF evpflags \cap {EF_AUTHENTICATED, EF_INTERNAL} # {}
               THEN "local"
               ELSE ss_to_text(ss)
        lk == Lookup(table, key, K_NETADDR)
    IN  CASE lk.ret = 1  -> Res(1, <<lk>>, <<>>)
          [] lk.ret = -1 -> Res(-1, <<lk>>, <<Warn(table)>>)
          [] OTHER       -> Res(0, <<lk>>, <<>>)

ruleset_check_mailaddr(table, maddr) ==
    LET key == mailaddr_to_text(maddr)
        lk == Lookup(table, key, K_MAILADDR)
    IN  IF key = NULL THEN Res(-1, <<>>, <<>>)
        ELSE CASE lk.ret = 1  -> Res(1, <<lk>>, <<>>)
               [] lk.ret = -1 -> Res(-1, <<lk>>, <<Warn(table)>>)
               [] OTHER       -> Res(0, <<lk>>, <<>>)

-----------------------------------------------------------------------------
(* ruleset_match_new's criterion evaluators *)

\* Faulty variant: the "case -1" arm is missing, a backend error falls to
\* "return 0".
ruleset_match_table_lookup_NoError(table, key, service) ==
    LET lk == Lookup(table, key, service)
    IN  CASE lk.ret = 1  -> Res(1, <<lk>>, <<>>)
          [] OTHER       -> Res(0, <<lk>>, <<>>)

ruleset_match_table_lookup(table, key, service) ==
    LET lk == Lookup(table, key, service)
    IN  CASE lk.ret = 1  -> Res(1, <<lk>>, <<>>)
          [] lk.ret = -1 -> Res(-1, <<lk>>, <<Warn(table)>>)
          [] OTHER       -> Res(0, <<lk>>, <<>>)

\* C's !ret on an int.
Not(x) == IF x = 0 THEN 1 ELSE 0

\* Faulty variant: the sign is applied without the "ret < 0" test before it.
Signed_Unchecked(field, res) ==
    [res EXCEPT !.ret = IF field < 0 THEN Not(res.ret) ELSE res.ret]

\* "if (ret < 0) return -1; return m->field < 0 ? !ret : ret;"
Signed(field, res) ==
    IF res.ret < 0 THEN [res EXCEPT !.ret = -1]
    ELSE [res EXCEPT !.ret = IF field < 0 THEN Not(res.ret) ELSE res.ret]

ruleset_match_tag(m, e) ==
    IF m.tag = 0 THEN Res(1, <<>>, <<>>)
    ELSE Signed(m.tag, ruleset_match_table_lookup(m.tag_table, e.tag, K_STRING))

\* Faulty variant: from_socket is ignored, the origin table is consulted.
ruleset_match_from_NoSocket(m, e) ==
    IF m.from = 0 THEN Res(1, <<>>, <<>>)
    ELSE LET key == IF EF_INTERNAL \in e.flags THEN "local" ELSE ss_to_text(e.ss)
             res == ruleset_match_table_lookup(m.from_table, key, K_NETADDR)
         IN  Signed(m.from, res)

ruleset_match_from(m, e) ==
    IF m.from = 0 THEN Res(1, <<>>, <<>>)
    ELSE IF m.from_socket THEN Res(-1, <<>>, <<>>)
    ELSE LET key == IF EF_INTERNAL \in e.flags THEN "local" ELSE ss_to_text(e.ss)
             res == ruleset_match_table_lookup(m.from_table, key, K_NETADDR)
         IN  Signed(m.from, res)

\* Faulty variant: the "if (!m->to) return 1;" guard is missing.
ruleset_match_to_Unguarded(m, e) ==
    Signed(m.to, ruleset_match_table_lookup(m.to_table, e.dest.domain, K_DOMAIN))

ruleset_match_to(m, e) ==
    IF m.to = 0 THEN Res(1, <<>>, <<>>)
    ELSE Signed(m.to, ruleset_match_table_lookup(m.to_table, e.dest.domain, K_DOMAIN))

ruleset_match_smtp_helo(m, e) ==
    IF m.smtp_helo = 0 THEN Res(1, <<>>, <<>>)
    ELSE Signed(m.smtp_helo,
                ruleset_match_table_lookup(m.smtp_helo_table, e.helo, K_DOMAIN))

ruleset_match_smtp_starttls(m, e) ==
    IF m.smtp_starttls = 0 THEN Res(1, <<>>, <<>>)
    ELSE Res(-1, <<>>, <<>>)

\* Faulty variant: the credential table is ignored.
ruleset_match_smtp_auth_NoTable(m, e) ==
    IF m.smtp_auth = 0 THEN Res(1, <<>>, <<>>)
    ELSE IF EF_AUTHENTICATED \notin e.flags
         THEN Signed(m.smtp_auth, Res(0, <<>>, <<>>))
    ELSE Signed(m.smtp_auth, Res(1, <<>>, <<>>))

ruleset_match_smtp_auth(m, e) ==
    IF m.smtp_auth = 0 THEN Res(1, <<>>, <<>>)
    ELSE IF EF_AUTHENTICATED \notin e.flags
         THEN Signed(m.smtp_auth, Res(0, <<>>, <<>>))
    ELSE IF m.smtp_auth_table THEN Res(-1, <<>>, <<>>)
    ELSE Signed(m.smtp_auth, Res(1, <<>>, <<>>))

ruleset_match_smtp_mail_from(m, e) ==
    IF m.smtp_mail_from = 0 THEN Res(1, <<>>, <<>>)
    ELSE LET key == mailaddr_to_text(e.sender)
             res == ruleset_match_table_lookup(m.smtp_mail_from_table, key, K_MAILADDR)
         IN  IF key = NULL THEN Res(-1, <<>>, <<>>)
             ELSE Signed(m.smtp_mail_from, res)

ruleset_match_smtp_rcpt_to(m, e) ==
    IF m.smtp_rcpt_to = 0 THEN Res(1, <<>>, <<>>)
    ELSE LET key == mailaddr_to_text(e.dest)
             res == ruleset_match_table_lookup(m.smtp_rcpt_to_table, key, K_MAILADDR)
         IN  IF key = NULL THEN Res(-1, <<>>, <<>>)
             ELSE Signed(m.smtp_rcpt_to, res)

-----------------------------------------------------------------------------
(* One step of a rule's evaluation: the criterion, whether it is present,  *)
(* how it leaves the loop body ("pass" to the next criterion, "continue"   *)
(* to the next rule, "tempfail" out of the call) and what it issued.       *)

Step(crit, present, out, res) ==
    [crit |-> crit, present |-> present, out |-> out,
     lookups |-> res.lookups, warns |-> res.warns]

Nothing == Res(1, <<>>, <<>>)

\* Faulty variant: the "ret == -1" test is missing, a failed lookup counts
\* as not found.
OldDecide_FaultIsMiss(r, not) ==
    IF (r <= 0 /\ ~not) \/ (r > 0 /\ not) THEN "continue"
    ELSE "pass"

\* ruleset_match: "if (ret == -1) { errno = EAGAIN; return NULL; }
\*                 if ((ret == 0 && !not) || (ret != 0 && not)) continue;"
OldDecide(r, not) ==
    IF r = -1 THEN "tempfail"
    ELSE IF (r = 0 /\ ~not) \/ (r # 0 /\ not) THEN "continue"
    ELSE "pass"

\* strcmp(a, b): 0 when equal
strcmp(a, b) == IF a = b THEN 0 ELSE 1

old_tag(r, e) ==
    IF r.r_tag # ""
    THEN LET c == strcmp(r.r_tag, e.tag)
         IN  Step("tag", TRUE,
                  IF (c # 0 /\ ~r.r_nottag) \/ (c = 0 /\ r.r_nottag)
                  THEN "continue" ELSE "pass", Nothing)
    ELSE Step("tag", FALSE, "pass", Nothing)

\* Faulty variant: r_negwantauth is ignored, an inverted requirement is
\* evaluated as a normal one.
old_auth_IgnoreNeg(r, e) ==
    Step("auth", r.r_wantauth,
         IF r.r_wantauth /\ EF_AUTHENTICATED \notin e.flags
         THEN "continue" ELSE "pass", Nothing)

old_auth(r, e) ==
    Step("auth", r.r_wantauth,
         IF (r.r_wantauth /\ ~r.r_negwantauth) /\ EF_AUTHENTICATED \notin e.flags
         THEN "continue"
         ELSE IF (r.r_wantauth /\ r.r_negwantauth) /\ EF_AUTHENTICATED \in e.flags
         THEN "continue"
         ELSE "pass", Nothing)

old_source(r, e) ==
    LET res == ruleset_check_source(r.r_sources, e.ss, e.flags)
    IN  Step("from", TRUE, OldDecide(res.ret, r.r_notsources), res)

old_senders(r, e) ==
    IF r.r_senders # NULL
    THEN LET res == ruleset_check_mailaddr(r.r_senders, e.sender)
         IN  Step("mail_from", TRUE, OldDecide(res.ret, r.r_notsenders), res)
    ELSE Step("mail_from", FALSE, "pass", Nothing)

old_recipients(r, e) ==
    IF r.r_recipients # NULL
    THEN LET res == ruleset_check_mailaddr(r.r_recipients, e.dest)
         IN  Step("rcpt_to", TRUE, OldDecide(res.ret, r.r_notrecipients), res)
    ELSE Step("rcpt_to", FALSE, "pass", Nothing)

old_destination(r, e) ==
    LET lk == Lookup(r.r_destination, e.dest.domain, K_DOMAIN)
    IN  IF r.r_destination = NULL
        THEN Step("to", FALSE, OldDecide(1, r.r_notdestination), Nothing)
        ELSE Step("to", TRUE, OldDecide(lk.ret, r.r_notdestination),
                  Res(lk.ret, <<lk>>, <<>>))

\* The body of ruleset_match's loop, in the order of the code.
OldSteps(r, e) ==
    << old_tag(r, e), old_auth(r, e), old_source(r, e),
       old_senders(r, e), old_recipients(r, e), old_destination(r, e) >>

\* MATCH_EVAL(x): -1 goto tempfail, 0 continue, default break
MATCH_EVAL(x) ==
    CASE x = -1 -> "tempfail"
      [] x = 0  -> "continue"
      [] OTHER  -> "pass"

NewStep(crit, field, res) == Step(crit, field # 0, MATCH_EVAL(res.ret), res)

\* The body of ruleset_match_new's loop, in the order of the code.
NewSteps(m, e) ==
    << NewStep("tag", m.tag, ruleset_match_tag(m, e)),
       NewStep("from", m.from, ruleset_match_from(m, e)),
       NewStep("to", m.to, ruleset_match_to(m, e)),
       NewStep("helo", m.smtp_helo, ruleset_match_smtp_helo(m, e)),
       NewStep("auth", m.smtp_auth, ruleset_match_smtp_auth(m, e)),
       NewStep("starttls", m.smtp_starttls, ruleset_match_smtp_starttls(m, e)),
       NewStep("mail_from", m.smtp_mail_from, ruleset_match_smtp_mail_from(m, e)),
       NewStep("rcpt_to", m.smtp_rcpt_to, ruleset_match_smtp_rcpt_to(m, e)) >>

Min(S) == CHOOSE x \in S : \A y \in S : x <= y

\* Faulty variant: no step leaves the body early, the last one decides.
Body_LastDecides(steps) ==
    [out |-> steps[Len(steps)].out, done |-> steps]

\* Faulty variant: the first failing step decides, but the steps after it
\* are executed all the same.
Body_NoShortCircuit(steps) ==
    LET failing == {j \in 1..Len(steps) : steps[j].out # "pass"}
    IN  [out |-> IF failing = {} THEN "pass" ELSE steps[Min(failing)].out,
         done |-> steps]

\* Faulty variant: every step is executed and an indeterminate one decides
\* wherever it stands.
Body_FaultWins(steps) ==
    LET failing == {j \in 1..Len(steps) : steps[j].out # "pass"}
        faults == {j \in 1..Len(steps) : steps[j].out = "tempfail"}
    IN  [out |-> IF faults # {} THEN "tempfail"
                 ELSE IF failing # {} THEN "continue" ELSE "pass",
         done |-> IF faults # {} THEN SubSeq(steps, 1, Min(faults))
                  ELSE IF failing # {} THEN SubSeq(steps, 1, Min(failing))
                  ELSE steps]

\* Run the steps in order up to and including the first one that does not
\* pass: the steps after it are not executed.
Body(steps) ==
    LET failing == {j \in 1..Len(steps) : steps[j].out # "pass"}
        stop == IF failing = {} THEN Len(steps) ELSE Min(failing)
    IN  [out |-> IF failing = {} THEN "pass" ELSE steps[stop].out,
         done |-> SubSeq(steps, 1, stop)]

RECURSIVE Concat(_)
Concat(ss) == IF ss = <<>> THEN <<>> ELSE Head(ss) \o Concat(Tail(ss))

\* What one executed loop body adds to the three logs, for the rule at pos.
EvalsOf(pos, done) ==
    [j \in 1..Len(done) |->
        [rule |-> pos, crit |-> done[j].crit, present |-> done[j].present,
         out |-> done[j].out]]

LookupsOf(pos, done) ==
    Concat([j \in 1..Len(done) |->
        [k \in 1..Len(done[j].lookups) |->
            [rule |-> pos, crit |-> done[j].crit,
             table |-> done[j].lookups[k].table, key |-> done[j].lookups[k].key,
             service |-> done[j].lookups[k].service, ret |-> done[j].lookups[k].ret]]])

WarnsOf(done) ==
    Concat([j \in 1..Len(done) |->
        [k \in 1..Len(done[j].warns) |->
            [kind |-> "warnx", msg |-> done[j].warns[k], pos |-> 0]]])

Trace(msg, pos) == [kind |-> "trace", msg |-> msg, pos |-> pos]

\* A returned pointer is the position of the rule in its list; 0 is NULL.
Returned(val, err) == [val |-> val, errno |-> err]
NotCalled == Returned(-1, 0)

-----------------------------------------------------------------------------
(* Configurations and envelopes *)

\* A struct rule with no optional criterion: "from any".
Rule0 ==
    [r_tag |-> "", r_nottag |-> FALSE,
     r_wantauth |-> FALSE, r_negwantauth |-> FALSE,
     r_sources |-> "<anyhost>", r_notsources |-> FALSE,
     r_senders |-> NULL, r_notsenders |-> FALSE,
     r_recipients |-> NULL, r_notrecipients |-> FALSE,
     r_destination |-> NULL, r_notdestination |-> FALSE]

\* A struct match with no criterion present.
Match0 ==
    [tag |-> 0, tag_table |-> NULL,
     from |-> 0, from_table |-> NULL, from_socket |-> FALSE,
     to |-> 0, to_table |-> NULL,
     smtp_helo |-> 0, smtp_helo_table |-> NULL,
     smtp_auth |-> 0, smtp_auth_table |-> FALSE,
     smtp_starttls |-> 0,
     smtp_mail_from |-> 0, smtp_mail_from_table |-> NULL,
     smtp_rcpt_to |-> 0, smtp_rcpt_to_table |-> NULL]

Sign(present, not) == IF ~present THEN 0 ELSE IF not THEN -1 ELSE 1

\* The struct match that states the criteria of a struct rule: the tag as a
\* one-entry table, every other table unchanged, every sign kept.
MatchOfRule(r) ==
    [Match0 EXCEPT
        !.tag = Sign(r.r_tag # "", r.r_nottag),
        !.tag_table = IF r.r_tag = "" THEN NULL ELSE "tags_" \o r.r_tag,
        !.from = Sign(TRUE, r.r_notsources),
        !.from_table = r.r_sources,
        !.to = Sign(r.r_destination # NULL, r.r_notdestination),
        !.to_table = r.r_destination,
        !.smtp_auth = Sign(r.r_wantauth, r.r_negwantauth),
        !.smtp_mail_from = Sign(r.r_senders # NULL, r.r_notsenders),
        !.smtp_mail_from_table = r.r_senders,
        !.smtp_rcpt_to = Sign(r.r_recipients # NULL, r.r_notrecipients),
        !.smtp_rcpt_to_table = r.r_recipients]

MatchesOf(rules) == [k \in 1..Len(rules) |-> MatchOfRule(rules[k])]

CoreRules ==
    { Rule0,
      [Rule0 EXCEPT !.r_sources = "<localhost>"],
      [Rule0 EXCEPT !.r_tag = "y"],
      [Rule0 EXCEPT !.r_sources = "faulty"],
      [Rule0 EXCEPT !.r_tag = "y", !.r_sources = "faulty"],
      [Rule0 EXCEPT !.r_senders = "users"],
      [Rule0 EXCEPT !.r_senders = "users", !.r_notsenders = TRUE],
      [Rule0 EXCEPT !.r_wantauth = TRUE],
      [Rule0 EXCEPT !.r_wantauth = TRUE, !.r_sources = "faulty"],
      [Rule0 EXCEPT !.r_recipients = "nobody", !.r_destination = "faulty"],
      [Rule0 EXCEPT !.r_senders = "faulty", !.r_recipients = "nobody"],
      [Rule0 EXCEPT !.r_destination = "doms", !.r_notdestination = TRUE] }

CoreMatches ==
    { Match0,
      [Match0 EXCEPT !.smtp_starttls = 1],
      [Match0 EXCEPT !.smtp_auth = 1, !.smtp_auth_table = TRUE],
      [Match0 EXCEPT !.smtp_auth = -1, !.smtp_auth_table = TRUE],
      [Match0 EXCEPT !.from = 1, !.from_table = "<anyhost>", !.from_socket = TRUE],
      [Match0 EXCEPT !.from = 1, !.from_table = "<localhost>"],
      [Match0 EXCEPT !.smtp_helo = 1, !.smtp_helo_table = "doms", !.smtp_starttls = 1],
      [Match0 EXCEPT !.smtp_helo = -1, !.smtp_helo_table = "doms"],
      [Match0 EXCEPT !.tag = 1, !.tag_table = "faulty"],
      [Match0 EXCEPT !.tag = 1, !.tag_table = "tags_y",
                     !.smtp_mail_from = 1, !.smtp_mail_from_table = "faulty"] }

MailAddr(user, domain) == [user |-> user, domain |-> domain]

Envelope(flags, tag, sender, dest) ==
    [flags |-> flags, ss |-> "192.0.2.7", tag |-> tag, helo |-> "mx.example.net",
     sender |-> sender, dest |-> dest]

Envelopes ==
    { Envelope(f, "x", s, MailAddr("bob", "example.org")) :
        f \in SUBSET {EF_AUTHENTICATED, EF_INTERNAL},
        s \in {MailAddr("alice", "example.net"), MailAddr(Overlong, "example.net")} }

Lists(S) == UNION {[1..n -> S] : n \in 0..MaxRules}

\* The wider configurations: one-rule lists in which every criterion kind
\* occurs with either sign and with a table that finds, misses or fails.
WideRules ==
    LET origins == { [Rule0 EXCEPT !.r_sources = t, !.r_notsources = n] :
                        t \in {"<anyhost>", "<localhost>", "faulty"}, n \in BOOLEAN }
    IN  UNION { { o,
                  [o EXCEPT !.r_tag = "x", !.r_nottag = n],
                  [o EXCEPT !.r_tag = "y", !.r_nottag = n],
                  [o EXCEPT !.r_wantauth = TRUE, !.r_negwantauth = n],
                  [o EXCEPT !.r_senders = t, !.r_notsenders = n],
                  [o EXCEPT !.r_recipients = t, !.r_notrecipients = n],
                  [o EXCEPT !.r_destination = d, !.r_notdestination = n] } :
                o \in origins, n \in BOOLEAN,
                t \in {"users", "nobody", "faulty"},
                d \in {"doms", "nobody", "faulty"} }

SingleMatches ==
    UNION { { Match0,
              [Match0 EXCEPT !.tag = g, !.tag_table = s],
              [Match0 EXCEPT !.from = g, !.from_table = o, !.from_socket = b],
              [Match0 EXCEPT !.to = g, !.to_table = d],
              [Match0 EXCEPT !.smtp_helo = g, !.smtp_helo_table = h],
              [Match0 EXCEPT !.smtp_auth = g, !.smtp_auth_table = b],
              [Match0 EXCEPT !.smtp_starttls = g],
              [Match0 EXCEPT !.smtp_mail_from = g, !.smtp_mail_from_table = t],
              [Match0 EXCEPT !.smtp_rcpt_to = g, !.smtp_rcpt_to_table = t] } :
            g \in {1, -1}, b \in BOOLEAN,
            s \in {"tags_x", "tags_y", "faulty"},
            o \in {"<anyhost>", "<localhost>", "peers", "faulty"},
            d \in {"doms", "nobody", "faulty"},
            h \in {"helos", "doms", "faulty"},
            t \in {"users", "nobody", "faulty"} }

\* a carrying the criteria of b as well
Merge(a, b) == [f \in DOMAIN Match0 |-> IF a[f] # Match0[f] THEN a[f] ELSE b[f]]

WideMatches == { Merge(a, b) : a \in SingleMatches, b \in SingleMatches }

WideEnvelopes ==
    { Envelope(f, "x", MailAddr(s, "example.net"), MailAddr(d, "example.org")) :
        f \in SUBSET {EF_AUTHENTICATED, EF_INTERNAL},
        s \in {"alice", Overlong}, d \in {"bob", Overlong} }

-----------------------------------------------------------------------------
(* The matchers *)

Start(f) ==
    /\ pc = "idle"
    /\ pc' = "loop"
    /\ fn' = f
    /\ cur' = 1
    /\ evals' = <<>>
    /\ lookups' = <<>>
    /\ diag' = <<>>

\* The logs after the loop body ran on the rule at cur.
Logged(b) ==
    /\ evals' = evals \o EvalsOf(cur, b.done)
    /\ lookups' = lookups \o LookupsOf(cur, b.done)

Return(val) ==
    /\ pc' = "idle"
    /\ ret' = [ret EXCEPT ![fn] = Returned(val, errno')]

InOld == pc = "loop" /\ fn = "ruleset_match"
InNew == pc = "loop" /\ fn = "ruleset_match_new"

\* ruleset_match is entered: r = TAILQ_FIRST(env->sc_rules)
ruleset_match_enter ==
    /\ Start("ruleset_match")
    /\ UNCHANGED <<sc_rules, sc_matches, evp, errno, i, ret>>

\* a loop body that ends in "continue"
ruleset_match_continue ==
    /\ InOld /\ cur <= Len(sc_rules)
    /\ LET b == Body(OldSteps(sc_rules[cur], evp))
       IN  /\ b.out = "continue"
           /\ Logged(b)
           /\ diag' = diag \o WarnsOf(b.done)
    /\ cur' = cur + 1
    /\ UNCHANGED <<sc_rules, sc_matches, evp, errno, pc, fn, i, ret>>

\* Faulty variant: errno is not set on the way out.
ruleset_match_tempfail_NoErrno ==
    /\ InOld /\ cur <= Len(sc_rules)
    /\ LET b == Body(OldSteps(sc_rules[cur], evp))
       IN  /\ b.out = "tempfail"
           /\ Logged(b)
           /\ diag' = diag \o WarnsOf(b.done)
    /\ errno' = errno
    /\ Return(0)
    /\ UNCHANGED <<sc_rules, sc_matches, evp, fn, cur, i>>

\* a loop body that ends in "errno = EAGAIN; return (NULL);"
ruleset_match_tempfail ==
    /\ InOld /\ cur <= Len(sc_rules)
    /\ LET b == Body(OldSteps(sc_rules[cur], evp))
       IN  /\ b.out = "tempfail"
           /\ Logged(b)
           /\ diag' = diag \o WarnsOf(b.done)
    /\ errno' = EAGAIN
    /\ Return(0)
    /\ UNCHANGED <<sc_rules, sc_matches, evp, fn, cur, i>>

\* a loop body that ends in "goto matched"
ruleset_match_matched ==
    /\ InOld /\ cur <= Len(sc_rules)
    /\ LET b == Body(OldSteps(sc_rules[cur], evp))
       IN  /\ b.out = "pass"
           /\ Logged(b)
           /\ diag' = diag \o WarnsOf(b.done) \o <<Trace("rule matched", cur)>>
    /\ errno' = errno
    /\ Return(cur)
    /\ UNCHANGED <<sc_rules, sc_matches, evp, fn, cur, i>>

\* Faulty variant: errno is left as it was on entry.
ruleset_match_norule_StaleErrno ==
    /\ InOld /\ cur > Len(sc_rules)
    /\ errno' = errno
    /\ diag' = diag \o <<Trace("no rule matched", 0)>>
    /\ Return(0)
    /\ UNCHANGED <<sc_rules, sc_matches, evp, fn, cur, i, evals, lookups>>

\* the list is exhausted: "errno = 0; no rule matched; return (NULL);"
ruleset_match_norule ==
    /\ InOld /\ cur > Len(sc_rules)
    /\ errno' = 0
    /\ diag' = diag \o <<Trace("no rule matched", 0)>>
    /\ Return(0)
    /\ UNCHANGED <<sc_rules, sc_matches, evp, fn, cur, i, evals, lookups>>

\* ruleset_match_new is entered: i = 0, m = TAILQ_FIRST(env->sc_matches)
ruleset_match_new_enter ==
    /\ Start("ruleset_match_new")
    /\ i' = 0
    /\ UNCHANGED <<sc_rules, sc_matches, evp, errno, ret>>

\* Faulty variant: "++i" is missing when a rule is passed over.
ruleset_match_new_continue_NoCount ==
    /\ InNew /\ cur <= Len(sc_matches)
    /\ i' = i
    /\ LET b == Body(NewSteps(sc_matches[cur], evp))
       IN  /\ b.out = "continue"
           /\ Logged(b)
           /\ diag' = diag \o WarnsOf(b.done)
    /\ cur' = cur + 1
    /\ UNCHANGED <<sc_rules, sc_matches, evp, errno, pc, fn, ret>>

\* "++i" and a "continue" of MATCH_EVAL: the rule is a no-match
ruleset_match_new_continue ==
    /\ InNew /\ cur <= Len(sc_matches)
    /\ i' = i + 1
    /\ LET b == Body(NewSteps(sc_matches[cur], evp))
       IN  /\ b.out = "continue"
           /\ Logged(b)
           /\ diag' = diag \o WarnsOf(b.done)
    /\ cur' = cur + 1
    /\ UNCHANGED <<sc_rules, sc_matches, evp, errno, pc, fn, ret>>

\* "goto tempfail": errno = EAGAIN, the trace, return (NULL)
ruleset_match_new_tempfail ==
    /\ InNew /\ cur <= Len(sc_matches)
    /\ i' = i + 1
    /\ LET b == Body(NewSteps(sc_matches[cur], evp))
       IN  /\ b.out = "tempfail"
           /\ Logged(b)
           /\ diag' = diag \o WarnsOf(b.done)
                \o <<Trace("temporary failure in processing of a rule", 0)>>
    /\ errno' = EAGAIN
    /\ Return(0)
    /\ UNCHANGED <<sc_rules, sc_matches, evp, fn, cur>>

\* "goto matched": the trace "rule #i matched", return m
ruleset_match_new_matched ==
    /\ InNew /\ cur <= Len(sc_matches)
    /\ i' = i + 1
    /\ LET b == Body(NewSteps(sc_matches[cur], evp))
       IN  /\ b.out = "pass"
           /\ Logged(b)
           /\ diag' = diag \o WarnsOf(b.done) \o <<Trace("rule matched", i')>>
    /\ errno' = errno
    /\ Return(cur)
    /\ UNCHANGED <<sc_rules, sc_matches, evp, fn, cur>>

ruleset_match_new_norule ==
    /\ InNew /\ cur > Len(sc_matches)
    /\ errno' = 0
    /\ diag' = diag \o <<Trace("no rule matched", 0)>>
    /\ Return(0)
    /\ UNCHANGED <<sc_rules, sc_matches, evp, fn, cur, i, evals, lookups>>

-----------------------------------------------------------------------------
(* Specifications *)

Fresh ==
    /\ pc = "idle"
    /\ fn = "none"
    /\ cur = 0
    /\ i = 0
    /\ evals = <<>>
    /\ lookups = <<>>
    /\ diag = <<>>
    /\ ret = [f \in {"ruleset_match", "ruleset_match_new"} |-> NotCalled]

Idle == errno = 0 /\ Fresh

\* Either a list of struct rule together with the list of struct match that
\* states the same criteria, or a list of struct match alone: ruleset_match
\* reads only sc_rules and ruleset_match_new only sc_matches.
Init ==
    /\ evp \in Envelopes
    /\ \/ /\ sc_rules \in Lists(CoreRules)
          /\ sc_matches = MatchesOf(sc_rules)
       \/ /\ sc_rules = <<>>
          /\ sc_matches \in Lists(CoreMatches)
    /\ Idle

Next ==
    \/ ruleset_match_enter
    \/ ruleset_match_continue
    \/ ruleset_match_tempfail
    \/ ruleset_match_matched
    \/ ruleset_match_norule
    \/ ruleset_match_new_enter
    \/ ruleset_match_new_continue
    \/ ruleset_match_new_tempfail
    \/ ruleset_match_new_matched
    \/ ruleset_match_new_norule

Spec == Init /\ [][Next]_vars

InitWide ==
    /\ evp \in WideEnvelopes
    /\ \/ \E r \in WideRules :
            /\ sc_rules = <<r>>
            /\ sc_matches = MatchesOf(sc_rules)
       \/ \E m \in WideMatches :
            /\ sc_rules = <<>>
            /\ sc_matches = <<m>>
    /\ Idle

SpecWide == InitWide /\ [][Next]_vars

\* The calls made with any value in errno on entry to the first one: 0,
\* ENOENT (2) or EAGAIN, over lists of a rule that matches, one that does
\* not, one whose table fails and one that depends on the envelope.
EntryErrnos == {0, 2, EAGAIN}

ErrnoRules ==
    { Rule0,
      [Rule0 EXCEPT !.r_tag = "y"],
      [Rule0 EXCEPT !.r_sources = "faulty"],
      [Rule0 EXCEPT !.r_sources = "<localhost>"] }

ErrnoMatches ==
    { Match0,
      [Match0 EXCEPT !.smtp_starttls = 1],
      [Match0 EXCEPT !.from = 1, !.from_table = "<localhost>"],
      [Match0 EXCEPT !.tag = 1, !.tag_table = "tags_y",
                     !.smtp_mail_from = 1, !.smtp_mail_from_table = "faulty"] }

InitErrno ==
    /\ evp \in Envelopes
    /\ \/ /\ sc_rules \in Lists(ErrnoRules)
          /\ sc_matches = MatchesOf(sc_rules)
       \/ /\ sc_rules = <<>>
          /\ sc_matches \in Lists(ErrnoMatches)
    /\ errno \in EntryErrnos
    /\ Fresh

SpecErrno == InitErrno /\ [][Next]_vars

-----------------------------------------------------------------------------
(* Vocabulary of the properties *)

Matchers == {"ruleset_match", "ruleset_match_new"}

ListOf(f) == IF f = "ruleset_match" THEN sc_rules ELSE sc_matches

\* Every criterion of the rule at position k, each evaluated on its own.
StepsOf(f, k) ==
    IF f = "ruleset_match" THEN OldSteps(sc_rules[k], evp)
    ELSE NewSteps(sc_matches[k], evp)

\* The call of f has returned and the logs are those of that call.
Done(f) == pc = "idle" /\ fn = f

IsRule(o) == o.val > 0
IsNoRuleMatched(o) == o.val = 0 /\ o.errno = 0
IsIndeterminate(o) == o.val = 0 /\ o.errno = EAGAIN

\* The rules of f's list whose every criterion evaluates to match.
FullMatches(f) ==
    {k \in 1..Len(ListOf(f)) :
        \A s \in 1..Len(StepsOf(f, k)) : StepsOf(f, k)[s].out = "pass"}

NoFaultSeen == \A j \in 1..Len(evals) : evals[j].out # "tempfail"

\* C1: when no evaluated criterion was indeterminate, a finished call of
\* either matcher has returned the earliest rule all of whose criteria
\* match, whatever follows it in the list, and never a rule one of whose
\* criteria is a no-match.
C1_FirstMatchWins ==
    \A f \in Matchers :
        (Done(f) /\ NoFaultSeen) =>
            /\ FullMatches(f) # {} => ret[f].val = Min(FullMatches(f))
            /\ IsRule(ret[f]) => ret[f].val \in FullMatches(f)

\* Both matchers have returned the first rule although the second matches too.
C1_Witness ==
    /\ pc = "idle"
    /\ \A f \in Matchers : ret[f].val = 1 /\ {1, 2} \subseteq FullMatches(f)

\* C2: a criterion evaluation that is indeterminate, and a table lookup
\* that ends in a backend error, is the last thing the call does: it returns
\* NULL with errno = EAGAIN at once, nothing of that rule or of a later rule
\* is evaluated or looked up after it.
C2_FaultPropagation ==
    /\ \A j \in 1..Len(evals) :
          evals[j].out = "tempfail" =>
              /\ j = Len(evals)
              /\ pc = "idle"
              /\ ret[fn] = Returned(0, EAGAIN)
              /\ errno = EAGAIN
    /\ \A j \in 1..Len(lookups) :
          lookups[j].ret = -1 =>
              /\ j = Len(lookups)
              /\ evals # <<>>
              /\ evals[Len(evals)].out = "tempfail"
              /\ evals[Len(evals)].rule = lookups[j].rule
              /\ evals[Len(evals)].crit = lookups[j].crit

\* A fault on the first criterion of a rule whose next criterion is a
\* no-match, with another rule behind it, in either matcher.
C2_Witness ==
    /\ pc = "idle" /\ fn \in Matchers
    /\ Len(ListOf(fn)) > 1
    /\ evals # <<>>
    /\ LET e == evals[Len(evals)]
       IN  /\ e.out = "tempfail" /\ e.rule = 1
           /\ \E s \in (Len(evals) + 1)..Len(StepsOf(fn, 1)) :
                 StepsOf(fn, 1)[s].out = "continue"
    /\ IsIndeterminate(ret[fn])

\* C3: every lookup of the origin criterion uses the key "local" with the
\* key type network-address when the envelope is authenticated or internal,
\* and the text of the envelope's address otherwise.
C3_LocalOrigin ==
    \A j \in 1..Len(lookups) :
        lookups[j].crit = "from" =>
            /\ lookups[j].service = K_NETADDR
            /\ lookups[j].key =
                  IF evp.flags \cap {EF_AUTHENTICATED, EF_INTERNAL} # {}
                  THEN "local" ELSE ss_to_text(evp.ss)

\* The field of a struct match that holds a criterion's presence and sign,
\* and the field of a struct rule that holds a criterion's negation.
SignField(crit) ==
    CASE crit = "tag" -> "tag" [] crit = "from" -> "from" [] crit = "to" -> "to"
      [] crit = "helo" -> "smtp_helo" [] crit = "auth" -> "smtp_auth"
      [] crit = "starttls" -> "smtp_starttls"
      [] crit = "mail_from" -> "smtp_mail_from"
      [] crit = "rcpt_to" -> "smtp_rcpt_to"

NotField(crit) ==
    CASE crit = "tag" -> "r_nottag" [] crit = "auth" -> "r_negwantauth"
      [] crit = "from" -> "r_notsources" [] crit = "mail_from" -> "r_notsenders"
      [] crit = "rcpt_to" -> "r_notrecipients" [] crit = "to" -> "r_notdestination"

SignOf(f, k, crit) ==
    IF f = "ruleset_match"
    THEN (IF sc_rules[k][NotField(crit)] THEN -1 ELSE 1)
    ELSE sc_matches[k][SignField(crit)]

StepFor(steps, crit) == steps[CHOOSE s \in 1..Len(steps) : steps[s].crit = crit]

\* How the criterion crit of rule k evaluates with its sign inverted.
FlippedOut(f, k, crit) ==
    IF f = "ruleset_match"
    THEN StepFor(OldSteps([sc_rules[k] EXCEPT ![NotField(crit)] = ~@], evp), crit).out
    ELSE StepFor(NewSteps([sc_matches[k] EXCEPT ![SignField(crit)] = -@], evp), crit).out

LookupsFor(k, crit) ==
    {j \in 1..Len(lookups) : lookups[j].rule = k /\ lookups[j].crit = crit}

\* C4: for every present criterion that either matcher evaluates, the same
\* criterion with the sign inverted turns match into no-match and no-match
\* into match and leaves indeterminate indeterminate; and the outcome is the
\* table's answer under the normal sign and its inverse under the inverted
\* sign, a backend error being indeterminate under both.
C4_Negation ==
    \A j \in 1..Len(evals) :
        evals[j].present =>
            LET e == evals[j]
                o2 == FlippedOut(fn, e.rule, e.crit)
                sign == SignOf(fn, e.rule, e.crit)
            IN  /\ e.out = "pass" => o2 = "continue"
                /\ e.out = "continue" => o2 = "pass"
                /\ e.out = "tempfail" => o2 = "tempfail"
                /\ \A n \in LookupsFor(e.rule, e.crit) :
                      /\ lookups[n].ret = -1 <=> e.out = "tempfail"
                      /\ lookups[n].ret = 1 <=>
                            e.out = (IF sign < 0 THEN "continue" ELSE "pass")
                      /\ lookups[n].ret = 0 <=>
                            e.out = (IF sign < 0 THEN "pass" ELSE "continue")

\* An inverted criterion whose table misses has been evaluated to match.
C4_Witness ==
    \E j \in 1..Len(evals) :
        /\ evals[j].present
        /\ SignOf(fn, evals[j].rule, evals[j].crit) < 0
        /\ evals[j].out = "pass"
        /\ \E n \in LookupsFor(evals[j].rule, evals[j].crit) : lookups[n].ret = 0

\* The criteria the envelope cannot answer: transport security, and
\* authentication with a credential table.
Unsupported(m, crit) ==
    crit = "starttls" \/ (crit = "auth" /\ m.smtp_auth_table)

RuleOutcome(f, k) == Body(StepsOf(f, k)).out

\* C6: a finished call has returned NULL with errno = 0 exactly when every
\* rule of the list (none, for the empty list) is a no-match, and NULL with
\* errno = EAGAIN exactly when a criterion it evaluated was indeterminate;
\* errno still holds that value when the call is over.
C6_Exhaustion ==
    \A f \in Matchers :
        Done(f) =>
            /\ IsNoRuleMatched(ret[f]) <=>
                  \A k \in 1..Len(ListOf(f)) : RuleOutcome(f, k) = "continue"
            /\ IsNoRuleMatched(ret[f]) =>
                  /\ NoFaultSeen
                  /\ \A k \in 1..Len(ListOf(f)) :
                        \E j \in 1..Len(evals) :
                            evals[j].rule = k /\ evals[j].out = "continue"
            /\ IsIndeterminate(ret[f]) <=> ~NoFaultSeen
            /\ ret[f].val = 0 => errno = ret[f].errno /\ errno \in {0, EAGAIN}

\* A call over a non-empty list of no-match rules has returned NULL with
\* errno = 0 after an earlier call had left errno = EAGAIN.
C6_Witness ==
    /\ \E f \in Matchers :
          /\ Done(f) /\ Len(ListOf(f)) > 1 /\ IsNoRuleMatched(ret[f])
          /\ \E g \in Matchers : IsIndeterminate(ret[g])

\* C7: a criterion that evaluates to no-match is the last evaluation of
\* its rule: the next evaluation, if any, is the first criterion (the tag)
\* of the next rule; and every table lookup belongs to a present criterion
\* that was evaluated, one lookup at most per criterion, so that nothing is
\* looked up for a rule after one of its criteria has failed.
C7_ShortCircuit ==
    /\ \A j \in 1..Len(evals) :
          evals[j].out = "continue" =>
              \/ j = Len(evals)
              \/ /\ evals[j + 1].rule = evals[j].rule + 1
                 /\ evals[j + 1].crit = "tag"
    /\ \A n \in 1..Len(lookups) :
          /\ \E j \in 1..Len(evals) :
                /\ evals[j].rule = lookups[n].rule
                /\ evals[j].crit = lookups[n].crit
                /\ evals[j].present
          /\ LookupsFor(lookups[n].rule, lookups[n].crit) = {n}

\* The first criterion of the first rule was a no-match, a later criterion
\* of that rule would have matched, and evaluation went on with the tag of
\* the second rule.
C7_Witness ==
    /\ fn \in Matchers
    /\ Len(evals) > 1
    /\ evals[1].out = "continue" /\ evals[1].present
    /\ evals[2].rule = 2
    /\ \E s \in 2..Len(StepsOf(fn, 1)) :
          StepsOf(fn, 1)[s].present /\ StepsOf(fn, 1)[s].out = "pass"

Reached(k) == \E j \in 1..Len(evals) : evals[j].rule = k

LookupsOfRule(k) == {n \in 1..Len(lookups) : lookups[n].rule = k}

NoPresent(f, k) == \A s \in 1..Len(StepsOf(f, k)) : ~StepsOf(f, k)[s].present

Faulting(step) == \E n \in 1..Len(step.lookups) : step.lookups[n].ret = -1

\* The rules that come before the returned one (all of them when no rule is
\* returned).
Passed(f) ==
    IF IsRule(ret[f]) THEN 1..(ret[f].val - 1) ELSE 1..Len(ListOf(f))

\* C9 as stated: when a call returns a rule or NoRuleMatched, no rule it
\* went past has a present criterion whose lookup is in backend error.
C9_NoFaultBehind ==
    \A f \in Matchers :
        (Done(f) /\ ~IsIndeterminate(ret[f])) =>
            \A k \in Passed(f) :
                \A s \in 1..Len(StepsOf(f, k)) :
                    ~(StepsOf(f, k)[s].present /\ Faulting(StepsOf(f, k)[s]))

\* C9 as amended: when a call returns a rule or NoRuleMatched, every
\* present criterion of a rule it went past whose lookup is in backend
\* error comes, in that rule, after a criterion that is a no-match, so that
\* the failing lookup was never issued; a backend error on a criterion that
\* is evaluated makes the call Indeterminate.
C9_NoFallThrough ==
    /\ \A f \in Matchers :
          (Done(f) /\ ~IsIndeterminate(ret[f])) =>
              /\ \A k \in Passed(f) :
                    \A s \in 1..Len(StepsOf(f, k)) :
                        (StepsOf(f, k)[s].present /\ Faulting(StepsOf(f, k)[s])) =>
                            \E t \in 1..(s - 1) : StepsOf(f, k)[t].out = "continue"
              /\ \A n \in 1..Len(lookups) : lookups[n].ret # -1
    /\ \A f \in Matchers :
          (Done(f) /\ \E n \in 1..Len(lookups) : lookups[n].ret = -1) =>
              IsIndeterminate(ret[f])

\* A call has returned the second rule although the first rule has a
\* criterion on a failing table, behind a criterion that is a no-match.
C9_Witness ==
    \E f \in Matchers :
        /\ Done(f) /\ ret[f].val = 2
        /\ \E s \in 1..Len(StepsOf(f, 1)) :
              StepsOf(f, 1)[s].present /\ Faulting(StepsOf(f, 1)[s])

Outcome(o) ==
    IF IsRule(o) THEN <<"rule", o.val>>
    ELSE IF IsIndeterminate(o) THEN <<"Indeterminate", 0>>
    ELSE <<"NoRuleMatched", 0>>

\* C10: when the list of struct match states the criteria of the list of
\* struct rule, rule by rule, and both matchers have been called on the
\* envelope, they have returned the same outcome: the rule at the same
\* position, NoRuleMatched, or Indeterminate.
C10_SameOutcome ==
    (/\ sc_matches = MatchesOf(sc_rules)
     /\ pc = "idle"
     /\ \A f \in Matchers : ret[f] # NotCalled)
    => Outcome(ret["ruleset_match"]) = Outcome(ret["ruleset_match_new"])

\* C11: a call of a matcher that has been called before returns the
\* outcome its previous call returned (the list, the envelope and the
\* tables being the same), whatever the calls in between did and whatever
\* errno holds on entry.
C11_Deterministic ==
    [][\A f \in Matchers :
          ret[f] # NotCalled => Outcome(ret'[f]) = Outcome(ret[f])]_vars

\* A matcher that returned a rule before is called again, over a list of
\* more than one rule, after the other matcher returned Indeterminate:
\* errno on entry is not what it was at the previous return.
C11_Witness ==
    /\ pc = "loop" /\ fn \in Matchers
    /\ IsRule(ret[fn])
    /\ errno = EAGAIN /\ errno # ret[fn].errno
    /\ Len(ListOf(fn)) > 1
    /\ \E g \in Matchers : IsIndeterminate(ret[g])

\* The present criteria of the rule at position k, in the order of the code.
PresentSteps(f, k) == SelectSeq(StepsOf(f, k), LAMBDA st : st.present)

\* The orders in which n criteria can be evaluated.
Orders(n) == {p \in [1..n -> 1..n] : \A a, b \in 1..n : a # b => p[a] # p[b]}

Permuted(steps, p) == [j \in 1..Len(steps) |-> steps[p[j]]]

\* The outcome the call logged for the rule at position k: that of the last
\* criterion it evaluated for it.
LoggedOut(k) ==
    evals[CHOOSE j \in 1..Len(evals) :
            /\ evals[j].rule = k
            /\ \A n \in 1..Len(evals) : evals[n].rule = k => n <= j].out

\* C12 as stated: the outcome of every rule a call evaluates is the outcome
\* of the short-circuiting reduction over its present criteria taken in any
\* order.
C12_AnyOrder ==
    fn \in Matchers =>
        \A k \in 1..Len(ListOf(fn)) :
            Reached(k) =>
                \A p \in Orders(Len(PresentSteps(fn, k))) :
                    Body(Permuted(PresentSteps(fn, k), p)).out = LoggedOut(k)

\* C12 as amended: in any order of the present criteria the reduction gives
\* the outcome of the first criterion in that order that is not a match;
\* whether the rule is a match does not depend on the order, and the
\* outcome is the one the call found unless the rule has both a criterion
\* that is a no-match and one that is indeterminate.
C12_FirstFailureDecides ==
    fn \in Matchers =>
        \A k \in 1..Len(ListOf(fn)) :
            Reached(k) =>
                LET ps == PresentSteps(fn, k)
                    outs == {ps[s].out : s \in 1..Len(ps)}
                IN  \A p \in Orders(Len(ps)) :
                        LET q == Permuted(ps, p)
                            failing == {j \in 1..Len(q) : q[j].out # "pass"}
                            o == Body(q).out
                        IN  /\ o = IF failing = {} THEN "pass" ELSE q[Min(failing)].out
                            /\ o = "pass" <=> LoggedOut(k) = "pass"
                            /\ ~({"continue", "tempfail"} \subseteq outs)
                                  => o = LoggedOut(k)

\* A call found a rule to be a no-match at its first present criterion
\* while another present criterion of the rule is indeterminate: taken
\* first, that one makes the rule indeterminate.
C12_Witness ==
    /\ fn \in Matchers
    /\ Reached(1) /\ LoggedOut(1) = "continue"
    /\ \E s \in 1..Len(PresentSteps(fn, 1)) : PresentSteps(fn, 1)[s].out = "tempfail"

\* The documented order of the criteria.
Rank(crit) ==
    CASE crit = "tag" -> 1 [] crit = "from" -> 2 [] crit = "to" -> 3
      [] crit = "helo" -> 4 [] crit = "auth" -> 5 [] crit = "starttls" -> 6
      [] crit = "mail_from" -> 7 [] crit = "rcpt_to" -> 8

\* C13: within a rule the criteria are evaluated in the order tag, origin,
\* destination, HELO, authentication, transport security, sender,
\* recipient, and the criterion that decides a rule that is not a match is
\* the first one in that order that is not a match.
C13_FixedOrder ==
    /\ \A j \in 1..(Len(evals) - 1) :
          evals[j].rule = evals[j + 1].rule =>
              Rank(evals[j].crit) < Rank(evals[j + 1].crit)
    /\ fn \in Matchers =>
          \A j \in 1..Len(evals) :
              evals[j].out # "pass" =>
                  \A s \in 1..Len(StepsOf(fn, evals[j].rule)) :
                      StepsOf(fn, evals[j].rule)[s].out # "pass" =>
                          Rank(evals[j].crit) <= Rank(StepsOf(fn, evals[j].rule)[s].crit)

\* C14: every table lookup that ended in a backend error has a warning
\* naming its table in the diagnostics of the call, whatever the criterion
\* and the matcher.
C14_FaultsWarned ==
    \A n \in 1..Len(lookups) :
        lookups[n].ret = -1 =>
            \E d \in 1..Len(diag) :
                diag[d].kind = "warnx" /\ diag[d].msg = Warn(lookups[n].table)

Traces == SelectSeq(diag, LAMBDA d : d.kind = "trace")

\* C15: every completed call, in both matchers, has emitted exactly one trace
\* event, and that event agrees with the returned outcome: "rule matched"
\* exactly when a rule is returned, "no rule matched" exactly when no rule
\* matched, and the temporary-failure event, naming no rule, exactly when
\* the outcome is indeterminate.
C15_OneTracePerCall ==
    \A f \in Matchers :
        Done(f) =>
            /\ Len(Traces) = 1
            /\ (Traces[1].msg = "rule matched") = IsRule(ret[f])
            /\ (Traces[1].msg = "no rule matched") = IsNoRuleMatched(ret[f])
            /\ (Traces[1].msg = "temporary failure in processing of a rule")
                   = IsIndeterminate(ret[f])
            /\ IsRule(ret[f]) \/ Traces[1].pos = 0

\* The authentication criterion of rule k carries no credential table
\* (a struct rule has none).
NoCredentialTable(f, k) ==
    f = "ruleset_match" \/ ~sc_matches[k].smtp_auth_table

\* C16: in both matchers an evaluated present authentication criterion
\* without a credential table issues no table lookup, is never
\* indeterminate, and matches exactly when the envelope's authenticated
\* flag equals the required polarity: set under the normal sign, clear
\* under the inverted sign.
C16_PureFlagTest ==
    \A j \in 1..Len(evals) :
        (/\ evals[j].crit = "auth" /\ evals[j].present
         /\ NoCredentialTable(fn, evals[j].rule)) =>
            /\ LookupsFor(evals[j].rule, "auth") = {}
            /\ evals[j].out # "tempfail"
            /\ evals[j].out = "pass" <=>
                  ((EF_AUTHENTICATED \in evp.flags)
                      = (SignOf(fn, evals[j].rule, "auth") > 0))

\* An inverted authentication requirement without a credential table has
\* matched on an envelope that is not authenticated.
C16_Witness ==
    \E j \in 1..Len(evals) :
        /\ evals[j].crit = "auth" /\ evals[j].present
        /\ NoCredentialTable(fn, evals[j].rule)
        /\ SignOf(fn, evals[j].rule, "auth") < 0
        /\ EF_AUTHENTICATED \notin evp.flags
        /\ evals[j].out = "pass"
        /\ LookupsFor(evals[j].rule, "auth") = {}

\* C17: when ruleset_match_new returns a rule, the position in its
\* "rule matched" trace, which is the last diagnostic of the call, and the
\* counter i both equal the 1-based index of the returned rule in
\* sc_matches, the number of rules whose evaluation was started.
C17_PositionIsIndex ==
    (Done("ruleset_match_new") /\ IsRule(ret["ruleset_match_new"])) =>
        /\ Len(diag) > 0
        /\ diag[Len(diag)] = Trace("rule matched", ret["ruleset_match_new"].val)
        /\ i = ret["ruleset_match_new"].val
        /\ Reached(i) /\ ~Reached(i + 1)

\* The first rule was a no-match and the second is returned, reported at
\* position 2.
C17_Witness ==
    /\ Done("ruleset_match_new")
    /\ ret["ruleset_match_new"].val = 2
    /\ \E j \in 1..Len(evals) : evals[j].rule = 1 /\ evals[j].out = "continue"
    /\ diag[Len(diag)] = Trace("rule matched", 2)

\* The origin criterion of the k-th struct match is present and marked as
\* socket origin.
SocketOrigin(k) == sc_matches[k].from # 0 /\ sc_matches[k].from_socket

\* C18: in ruleset_match_new an evaluated present origin criterion marked
\* as socket origin is indeterminate and issues no table lookup, whatever
\* its sign and the envelope; a finished call whose list holds such a rule
\* with a matching tag criterion and no matching rule before it has
\* returned indeterminate, and the rule a call returns is never such a rule.
C18_SocketOrigin ==
    fn = "ruleset_match_new" =>
        /\ \A j \in 1..Len(evals) :
              (/\ evals[j].crit = "from" /\ evals[j].present
               /\ SocketOrigin(evals[j].rule)) =>
                  /\ evals[j].out = "tempfail"
                  /\ LookupsFor(evals[j].rule, "from") = {}
        /\ Done(fn) =>
              /\ \A k \in 1..Len(sc_matches) :
                    (/\ SocketOrigin(k)
                     /\ StepFor(NewSteps(sc_matches[k], evp), "tag").out = "pass"
                     /\ \A h \in 1..(k - 1) : RuleOutcome(fn, h) # "pass") =>
                        IsIndeterminate(ret[fn])
              /\ IsRule(ret[fn]) => ~SocketOrigin(ret[fn].val)

\* A call on an internal envelope has reached an inverted socket-origin
\* criterion behind a present, matching tag criterion and has returned
\* indeterminate without looking anything up for the origin.
C18_Witness ==
    /\ Done("ruleset_match_new")
    /\ IsIndeterminate(ret["ruleset_match_new"])
    /\ EF_INTERNAL \in evp.flags
    /\ \E j \in 1..Len(evals) :
          /\ evals[j].crit = "from" /\ evals[j].present
          /\ SocketOrigin(evals[j].rule)
          /\ sc_matches[evals[j].rule].from < 0
          /\ sc_matches[evals[j].rule].tag # 0
          /\ evals[j].out = "tempfail"
          /\ LookupsFor(evals[j].rule, "from") = {}

====
